---- MODULE Spec2Model ----
(***************************************************************************)
(* Model of src/main.py: the pydantic schema Node / Edge / ReasoningGraph  *)
(* / Output, extract_graph, and the __main__ script that exports the       *)
(* validated Output to cyto.json.                                          *)
(*                                                                         *)
(* Strings are sequences of one-character strings, so that str.strip and   *)
(* the f-string that builds an edge element id are computed, not assumed.  *)
(* An Optional[T] is a sequence of length at most one: <<>> is None.       *)
(* A confidence is counted in tenths: 15 is 1.5, -1 is -0.1.               *)
(***************************************************************************)
EXTENDS Integers, Sequences, FiniteSets, TLC

\* pc      where the script is
\* cand    the reply the extraction collaborator gives to this run's call
\* out     the Output that extract_graph returned
\* err     the exception that ended the run
\* data    out.model_dump(mode="json")
\* cyto    the document built from data
\* file    what the run wrote to cyto.json
\* printed whether the success message was printed
VARIABLES pc, cand, out, err, data, cyto, file, printed

vars == <<pc, cand, out, err, data, cyto, file, printed>>

-----------------------------------------------------------------------------
(* Bounds of the model *)

MaxNodes == 3

MaxEdges == 2

-----------------------------------------------------------------------------
(* String literals *)

S_c1 == <<"c", "1">>
S_e1 == <<"e", "1">>
S_a1 == <<"a", "1">>
S_sp_c1 == <<" ", "c", "1">>
S_c1_sp == <<"c", "1", " ">>
S_sp_c1_sp == <<" ", "c", "1", " ">>
S_tab_c1 == <<"\t", "c", "1">>
S_empty == <<>>
S_sp == <<" ">>
S_sp3 == <<" ", " ", " ">>
S_ok == <<"o", "k">>
S_t == <<"t">>

S_Claim == <<"C", "l", "a", "i", "m">>
S_Evidence == <<"E", "v", "i", "d", "e", "n", "c", "e">>
S_Assumption == <<"A", "s", "s", "u", "m", "p", "t", "i", "o", "n">>
S_Bogus == <<"B", "o", "g", "u", "s">>

S_supports == <<"s", "u", "p", "p", "o", "r", "t", "s">>
S_contradicts == <<"c", "o", "n", "t", "r", "a", "d", "i", "c", "t", "s">>
S_depends_on == <<"d", "e", "p", "e", "n", "d", "s", "-", "o", "n">>
S_implies == <<"i", "m", "p", "l", "i", "e", "s">>

-----------------------------------------------------------------------------
(* Enumerations: member name -> value *)

NodeType == ("CLAIM" :> S_Claim) @@ ("EVIDENCE" :> S_Evidence) @@ ("ASSUMPTION" :> S_Assumption)

EdgeType == ("SUPPORTS" :> S_supports) @@ ("CONTRADICTS" :> S_contradicts)
            @@ ("DEPENDS_ON" :> S_depends_on) @@ ("IMPLIES" :> S_implies)

Range(f) == {f[x] : x \in DOMAIN f}

\* Enum(value): the member whose value is the given string (the value must be one)
EnumMember(enum, v) == CHOOSE m \in DOMAIN enum : enum[m] = v

-----------------------------------------------------------------------------
(* str.strip() *)

Whitespace == {" ", "\t"}

RECURSIVE LStrip(_)
LStrip(s) == IF s # <<>> /\ Head(s) \in Whitespace THEN LStrip(Tail(s)) ELSE s

RECURSIVE RStrip(_)
RStrip(s) == IF s # <<>> /\ s[Len(s)] \in Whitespace
             THEN RStrip(SubSeq(s, 1, Len(s) - 1)) ELSE s

Strip(s) == RStrip(LStrip(s))

-----------------------------------------------------------------------------
(* Node *)

TextMinLength == 1

ConfidenceGe == 0

ConfidenceLe == 10

\* variant: the id is checked stripped but stored as given
id_not_empty_unstripped(v) == [ok |-> Strip(v) # <<>>, value |-> v]

\* the field validator of Node.id: the stripped id, or a failure when it is empty
id_not_empty(v) == LET s == Strip(v) IN [ok |-> s # <<>>, value |-> s]

\* variant: the confidence bounds are exclusive (gt, lt)
NodeErrorsExclusive(raw) ==
    {f \in {"id", "type", "text", "confidence"} :
        \/ f = "id" /\ ~id_not_empty(raw.id).ok
        \/ f = "type" /\ raw.type \notin Range(NodeType)
        \/ f = "text" /\ Len(raw.text) < TextMinLength
        \/ f = "confidence" /\ raw.confidence # <<>>
             /\ ~(raw.confidence[1] > ConfidenceGe /\ raw.confidence[1] < ConfidenceLe)}

\* the fields of a raw node that fail validation
NodeErrors(raw) ==
    {f \in {"id", "type", "text", "confidence"} :
        \/ f = "id" /\ ~id_not_empty(raw.id).ok
        \/ f = "type" /\ raw.type \notin Range(NodeType)
        \/ f = "text" /\ Len(raw.text) < TextMinLength
        \/ f = "confidence" /\ raw.confidence # <<>>
             /\ ~(raw.confidence[1] >= ConfidenceGe /\ raw.confidence[1] <= ConfidenceLe)}

\* the Node built from a raw node without errors
Node(raw) ==
    [id |-> id_not_empty(raw.id).value,
     type |-> EnumMember(NodeType, raw.type),
     text |-> raw.text,
     source |-> raw.source,
     confidence |-> raw.confidence]

-----------------------------------------------------------------------------
(* Edge *)

EdgeErrors(raw) == {f \in {"type"} : raw.type \notin Range(EdgeType)}

Edge(raw) ==
    [source |-> raw.source, target |-> raw.target, type |-> EnumMember(EdgeType, raw.type)]

-----------------------------------------------------------------------------
(* Errors *)

Error(kind, id, fields) == [kind |-> kind, id |-> id, fields |-> fields]

NoError == Error("none", <<>>, {})

-----------------------------------------------------------------------------
(* ReasoningGraph.validate_graph *)

\* variant: only the source of an edge is looked up
RECURSIVE CheckEdgesSourceOnly(_, _)
CheckEdgesSourceOnly(edges, id_set) ==
    IF edges = <<>> THEN NoError
    ELSE LET e == Head(edges) IN
         IF e.source \notin id_set THEN Error("source", e.source, {})
         ELSE CheckEdgesSourceOnly(Tail(edges), id_set)

\* variant: the target of an edge is looked up before its source
RECURSIVE CheckEdgesTargetFirst(_, _)
CheckEdgesTargetFirst(edges, id_set) ==
    IF edges = <<>> THEN NoError
    ELSE LET e == Head(edges) IN
         IF e.target \notin id_set THEN Error("target", e.target, {})
         ELSE IF e.source \notin id_set THEN Error("source", e.source, {})
         ELSE CheckEdgesTargetFirst(Tail(edges), id_set)

\* the loop over self.edges: the error of the first endpoint not in id_set
RECURSIVE CheckEdges(_, _)
CheckEdges(edges, id_set) ==
    IF edges = <<>> THEN NoError
    ELSE LET e == Head(edges) IN
         IF e.source \notin id_set THEN Error("source", e.source, {})
         ELSE IF e.target \notin id_set THEN Error("target", e.target, {})
         ELSE CheckEdges(Tail(edges), id_set)

\* variant: no duplicate check
validate_graph_no_duplicate_check(nodes, edges) ==
    CheckEdges(edges, Range([i \in 1..Len(nodes) |-> nodes[i].id]))

\* the semantic rules that main.py keeps commented out (lines 78-89)
SemanticallyCompatible(et, st, tt) ==
    /\ et \in {"SUPPORTS", "CONTRADICTS"} => (st = "EVIDENCE" /\ tt = "CLAIM")
    /\ et = "DEPENDS_ON" => (st = "CLAIM" /\ tt = "ASSUMPTION")
    /\ et = "IMPLIES" => (st = "CLAIM" /\ tt = "CLAIM")

\* variant: the semantic rules are enforced after the reference checks
validate_graph_semantic(nodes, edges) ==
    LET ids == [i \in 1..Len(nodes) |-> nodes[i].id]
        id_set == Range(ids)
        node_type(id) == nodes[CHOOSE i \in 1..Len(nodes) : nodes[i].id = id].type
    IN IF Len(ids) # Cardinality(id_set) THEN Error("duplicate", <<>>, {})
       ELSE IF CheckEdges(edges, id_set) # NoError THEN CheckEdges(edges, id_set)
       ELSE IF \E j \in 1..Len(edges) :
                 ~SemanticallyCompatible(edges[j].type, node_type(edges[j].source),
                                         node_type(edges[j].target))
       THEN Error("semantic", <<>>, {})
       ELSE NoError

validate_graph(nodes, edges) ==
    LET ids == [i \in 1..Len(nodes) |-> nodes[i].id]
        id_set == Range(ids)
    IN IF Len(ids) # Cardinality(id_set) THEN Error("duplicate", <<>>, {})
       ELSE CheckEdges(edges, id_set)

\* ReasoningGraph(nodes=..., edges=...): the fields first, then validate_graph
ReasoningGraphError(rawNodes, rawEdges) ==
    LET bad == UNION ({NodeErrors(rawNodes[i]) : i \in 1..Len(rawNodes)}
                      \cup {EdgeErrors(rawEdges[j]) : j \in 1..Len(rawEdges)})
    IN IF bad # {} THEN Error("field", <<>>, bad)
       ELSE validate_graph([i \in 1..Len(rawNodes) |-> Node(rawNodes[i])],
                           [j \in 1..Len(rawEdges) |-> Edge(rawEdges[j])])

-----------------------------------------------------------------------------
(* Output *)

NoOutput == [present |-> FALSE, text |-> <<>>, nodes |-> <<>>, edges |-> <<>>]

OutputError(c) == ReasoningGraphError(c.nodes, c.edges)

Output(c) ==
    [present |-> TRUE,
     text |-> c.text,
     nodes |-> [i \in 1..Len(c.nodes) |-> Node(c.nodes[i])],
     edges |-> [j \in 1..Len(c.edges) |-> Edge(c.edges[j])]]

-----------------------------------------------------------------------------
(* model_dump(mode="json") and the cytoscape document *)

NoData == [text |-> <<>>, nodes |-> <<>>, edges |-> <<>>]

ModelDumpJson(o) ==
    [text |-> o.text,
     nodes |-> [i \in 1..Len(o.nodes) |->
                  [id |-> o.nodes[i].id, type |-> NodeType[o.nodes[i].type],
                   text |-> o.nodes[i].text, source |-> o.nodes[i].source,
                   confidence |-> o.nodes[i].confidence]],
     edges |-> [j \in 1..Len(o.edges) |->
                  [source |-> o.edges[j].source, target |-> o.edges[j].target,
                   type |-> EdgeType[o.edges[j].type]]]]

NodeElement(n) ==
    [id |-> n.id, label |-> n.text, type |-> n.type,
     source |-> n.source, confidence |-> n.confidence]

\* variant: source and target swapped in the id
EdgeElementIdSwapped(e) == e.type \o <<":">> \o e.target \o <<"-", ">">> \o e.source

EdgeElementId(e) == e.type \o <<":">> \o e.source \o <<"-", ">">> \o e.target

EdgeElement(e) ==
    [id |-> EdgeElementId(e), source |-> e.source, target |-> e.target, type |-> e.type]

NodeElements(nodes) == [i \in 1..Len(nodes) |-> NodeElement(nodes[i])]

\* variant: an edge that repeats an earlier one is dropped
RECURSIVE EdgeElementsDedup(_)
EdgeElementsDedup(edges) ==
    IF edges = <<>> THEN <<>>
    ELSE LET front == SubSeq(edges, 1, Len(edges) - 1)
             last == edges[Len(edges)]
         IN IF \E j \in 1..Len(front) : front[j] = last
            THEN EdgeElementsDedup(front)
            ELSE Append(EdgeElementsDedup(front), EdgeElement(last))

EdgeElements(edges) == [j \in 1..Len(edges) |-> EdgeElement(edges[j])]

NoDocument == [present |-> FALSE, text |-> <<>>, nodes |-> <<>>, edges |-> <<>>]

Cyto(d) ==
    [present |-> TRUE, text |-> d.text,
     nodes |-> NodeElements(d.nodes), edges |-> EdgeElements(d.edges)]

-----------------------------------------------------------------------------
(* What the extraction collaborator may reply *)

RawNode(id, type, text, source, confidence) ==
    [id |-> id, type |-> type, text |-> text, source |-> source, confidence |-> confidence]

RawEdge(source, target, type) == [source |-> source, target |-> target, type |-> type]

Candidate(tag, text, nodes, edges) ==
    [tag |-> tag, text |-> text, nodes |-> nodes, edges |-> edges]

SeqsUpTo(S, n) == UNION {[1..k -> S] : k \in 0..n}

\* the call raises / the response carries no parsed output
Raises == Candidate("raise", <<>>, <<>>, <<>>)

Unparsed == Candidate("none", <<>>, <<>>, <<>>)

GraphIds == {S_c1, S_e1, S_sp_c1}

GraphNodes ==
    {RawNode(S_c1, S_Claim, S_t, <<>>, <<>>),
     RawNode(S_e1, S_Evidence, S_t, <<S_t>>, <<5>>),
     RawNode(S_sp_c1, S_Claim, S_t, <<>>, <<>>),
     RawNode(S_a1, S_Assumption, S_t, <<>>, <<0>>),
     RawNode(S_e1, S_Claim, <<>>, <<>>, <<>>)}

GraphEdges ==
    {RawEdge(s, t, S_supports) : s \in {S_c1, S_e1}, t \in GraphIds}
    \cup {RawEdge(S_sp_c1, S_c1, S_supports),
          RawEdge(S_c1, S_c1, S_depends_on), RawEdge(S_e1, S_e1, S_depends_on)}

Candidates ==
    {Raises, Unparsed}
    \cup {Candidate("data", S_ok, ns, es) :
            ns \in SeqsUpTo(GraphNodes, MaxNodes), es \in SeqsUpTo(GraphEdges, MaxEdges)}
    \cup {Candidate("data", <<>>, ns, es) :
            ns \in SeqsUpTo(GraphNodes, 1), es \in SeqsUpTo(GraphEdges, 1)}

\* replies of one node and no edge, for the rules of Node
NodeIds == {S_empty, S_sp, S_sp3, S_c1, S_sp_c1_sp, S_tab_c1, S_c1_sp}

NodeCandidates ==
    {Candidate("data", S_ok, <<RawNode(id, ty, tx, so, co)>>, <<>>) :
        id \in NodeIds,
        ty \in {S_Claim, S_Evidence, S_Assumption, S_Bogus},
        tx \in {S_empty, S_sp, S_t},
        so \in {<<>>, <<S_t>>},
        co \in {<<>>, <<-1>>, <<0>>, <<5>>, <<10>>, <<11>>, <<15>>}}

-----------------------------------------------------------------------------
(* The script *)

InitWith(replies) ==
    /\ pc = "start"
    /\ cand \in replies
    /\ out = NoOutput
    /\ err = NoError
    /\ data = NoData
    /\ cyto = NoDocument
    /\ file = NoDocument
    /\ printed = FALSE

Init == InitWith(Candidates)

InitNode == InitWith(NodeCandidates)

\* out = extract_graph(sample): the call, and the parse of the reply as Output
ExtractGraph ==
    /\ pc = "start"
    /\ IF cand.tag = "raise"
       THEN /\ err' = Error("collaborator", <<>>, {})
            /\ pc' = "aborted"
            /\ out' = out
       ELSE IF cand.tag = "none"
       THEN /\ pc' = "extracted"
            /\ UNCHANGED <<out, err>>
       ELSE IF OutputError(cand) # NoError
       THEN /\ err' = OutputError(cand)
            /\ pc' = "aborted"
            /\ out' = out
       ELSE /\ out' = Output(cand)
            /\ pc' = "extracted"
            /\ err' = err
    /\ UNCHANGED <<cand, data, cyto, file, printed>>

\* data = out.model_dump(mode="json")
ModelDump ==
    /\ pc = "extracted"
    /\ IF ~out.present
       THEN /\ err' = Error("attribute", <<>>, {})
            /\ pc' = "aborted"
            /\ data' = data
       ELSE /\ data' = ModelDumpJson(out)
            /\ pc' = "dumped"
            /\ err' = err
    /\ UNCHANGED <<cand, out, cyto, file, printed>>

\* cyto = {...}
BuildCyto ==
    /\ pc = "dumped"
    /\ cyto' = Cyto(data)
    /\ pc' = "built"
    /\ UNCHANGED <<cand, out, err, data, file, printed>>

\* variant: the file is written in a finally block, also after a failure
WriteFileBestEffort ==
    /\ pc \in {"built", "aborted"}
    /\ file' = [cyto EXCEPT !.present = TRUE]
    /\ pc' = "written"
    /\ UNCHANGED <<cand, out, err, data, cyto, printed>>

\* with open("cyto.json", "w") as f: json.dump(cyto, f, ...)
WriteFile ==
    /\ pc = "built"
    /\ file' = cyto
    /\ pc' = "written"
    /\ UNCHANGED <<cand, out, err, data, cyto, printed>>

\* print("cyto.json exported successfully.")
PrintSuccess ==
    /\ pc = "written"
    /\ printed' = TRUE
    /\ pc' = "done"
    /\ UNCHANGED <<cand, out, err, data, cyto, file>>

Next == ExtractGraph \/ ModelDump \/ BuildCyto \/ WriteFile \/ PrintSuccess

Spec == Init /\ [][Next]_vars

SpecNode == InitNode /\ [][Next]_vars

-----------------------------------------------------------------------------
(* Vocabulary of the properties, stated on the collaborator's reply *)

\* the reply was data and extract_graph has acted on it
Parsed == pc # "start" /\ cand.tag = "data"

AllWhitespace(s) == \A k \in 1..Len(s) : s[k] \in Whitespace

\* no leading or trailing whitespace, and not empty
Trimmed(s) == s # <<>> /\ s[1] \notin Whitespace /\ s[Len(s)] \notin Whitespace

WellFormedNode(r) ==
    /\ ~AllWhitespace(r.id)
    /\ r.type \in {S_Claim, S_Evidence, S_Assumption}
    /\ r.text # <<>>
    /\ (r.confidence = <<>> \/ (r.confidence[1] >= 0 /\ r.confidence[1] <= 10))

WellFormedEdge(r) == r.type \in {S_supports, S_contradicts, S_depends_on, S_implies}

\* every node and every edge of the reply can be constructed
FieldsOk ==
    /\ \A i \in 1..Len(cand.nodes) : WellFormedNode(cand.nodes[i])
    /\ \A j \in 1..Len(cand.edges) : WellFormedEdge(cand.edges[j])

NodeIdAt(i) == Strip(cand.nodes[i].id)

NodeIdSet == {NodeIdAt(i) : i \in 1..Len(cand.nodes)}

HasDuplicate == \E i, k \in 1..Len(cand.nodes) : i # k /\ NodeIdAt(i) = NodeIdAt(k)

Dangling(j) == cand.edges[j].source \notin NodeIdSet \/ cand.edges[j].target \notin NodeIdSet

DanglingEdges == {j \in 1..Len(cand.edges) : Dangling(j)}

Emitted == cyto.present \/ file.present \/ printed

Rejected == pc = "aborted" /\ ~out.present /\ ~Emitted

-----------------------------------------------------------------------------
\* C1: a graph whose nodes hold two entries with identical ids, at any two
\* positions and with any edges, fails with the duplicate-id error and no
\* document is emitted.
Thm_C1 ==
    (Parsed /\ FieldsOk /\ HasDuplicate) => (Rejected /\ err = Error("duplicate", <<>>, {}))

Wit_C1 ==
    /\ Parsed /\ FieldsOk /\ Rejected
    /\ Len(cand.nodes) = MaxNodes /\ Len(cand.edges) = MaxEdges
    /\ cand.nodes[1].id = cand.nodes[MaxNodes].id
    /\ DanglingEdges = {}
    /\ err.kind = "duplicate"

\* C2 as stated: an edge whose source or target is no node id makes the
\* construction fail with a dangling-reference error.
Cex_C2 ==
    (Parsed /\ FieldsOk /\ DanglingEdges # {})
        => (Rejected /\ err.kind \in {"source", "target"})

\* C2 as amended: such an edge makes the construction fail, with a
\* dangling-reference error when the node ids are pairwise distinct and with the
\* duplicate-id error otherwise; every ReasoningGraph that exists has every
\* edge's source and target among its node ids.
Thm_C2 ==
    /\ (Parsed /\ FieldsOk /\ DanglingEdges # {})
         => /\ Rejected
            /\ IF HasDuplicate THEN err.kind = "duplicate"
                               ELSE err.kind \in {"source", "target"}
    /\ out.present =>
         \A j \in 1..Len(out.edges) :
            /\ \E i \in 1..Len(out.nodes) : out.nodes[i].id = out.edges[j].source
            /\ \E i \in 1..Len(out.nodes) : out.nodes[i].id = out.edges[j].target

Wit_C2 ==
    /\ Parsed /\ FieldsOk /\ Rejected /\ ~HasDuplicate
    /\ Len(cand.edges) = MaxEdges
    /\ DanglingEdges = {MaxEdges}
    /\ cand.edges[MaxEdges].source \in NodeIdSet
    /\ err.kind = "target"

\* C3: constructing an Output whose text is the empty string fails and produces
\* no Output.
Cex_C3 == (Parsed /\ cand.text = <<>>) => (pc = "aborted" /\ ~out.present)

\* C4: Node construction fails on an id that is empty after trimming, on an
\* empty text, and on a confidence outside [0,1]; it succeeds for confidence 0.0,
\* 1.0 and absent when id and text are valid; a failure produces no Node.
Thm_C4 ==
    (Parsed /\ Len(cand.nodes) = 1 /\ cand.edges = <<>>) =>
        LET r == cand.nodes[1]
            Failed(f) == Rejected /\ err.kind = "field" /\ f \in err.fields
        IN /\ AllWhitespace(r.id) => Failed("id")
           /\ r.text = <<>> => Failed("text")
           /\ (r.confidence # <<>> /\ (r.confidence[1] < 0 \/ r.confidence[1] > 10))
                => Failed("confidence")
           /\ (/\ ~AllWhitespace(r.id) /\ r.text # <<>>
               /\ r.type \in {S_Claim, S_Evidence, S_Assumption}
               /\ r.confidence \in {<<>>, <<0>>, <<10>>})
                => /\ err = NoError /\ out.present /\ Len(out.nodes) = 1
                   /\ out.nodes[1].text = r.text
                   /\ out.nodes[1].confidence = r.confidence
           /\ err # NoError => Rejected

Wit_C4 ==
    /\ Parsed /\ Len(cand.nodes) = 1 /\ Rejected
    /\ cand.nodes[1].id = S_sp3
    /\ cand.nodes[1].text = <<>>
    /\ cand.nodes[1].confidence = <<15>>
    /\ cand.nodes[1].type = S_Claim
    /\ err = Error("field", <<>>, {"id", "text", "confidence"})

\* C5: the document is written and the success message printed only after the
\* collaborator has returned and the whole Output has been validated; when the
\* call or any validation fails the run ends there and nothing is written.
Thm_C5 ==
    /\ Emitted =>
         /\ cand.tag = "data" /\ out.present /\ err = NoError
         /\ FieldsOk /\ ~HasDuplicate /\ DanglingEdges = {}
         /\ pc \in {"built", "written", "done"}
    /\ file.present => pc \in {"written", "done"}
    /\ printed => (file.present /\ pc = "done")
    /\ (pc # "start" /\ (cand.tag # "data" \/ ~FieldsOk \/ HasDuplicate \/ DanglingEdges # {}))
         => (~Emitted /\ (pc = "aborted" \/ (cand.tag = "none" /\ pc = "extracted")))
    /\ err # NoError => pc = "aborted"
    /\ pc = "aborted" => (err # NoError /\ ~Emitted /\ ~ENABLED Next)

Wit_C5 ==
    /\ Parsed /\ FieldsOk /\ ~HasDuplicate
    /\ Len(cand.nodes) = MaxNodes /\ Len(cand.edges) = MaxEdges
    /\ DanglingEdges = {MaxEdges}
    /\ pc = "aborted" /\ ~file.present /\ ~printed

\* C6: the export has one node element per node and one edge element per edge;
\* the i-th element comes from the i-th input, nothing is deduplicated or
\* sorted; exporting the same Output again gives the same document.
Thm_C6 ==
    cyto.present =>
        /\ Len(cyto.nodes) = Len(out.nodes) /\ Len(cyto.nodes) = Len(cand.nodes)
        /\ Len(cyto.edges) = Len(out.edges) /\ Len(cyto.edges) = Len(cand.edges)
        /\ \A i \in 1..Len(out.nodes) :
              /\ cyto.nodes[i].id = out.nodes[i].id
              /\ cyto.nodes[i].label = out.nodes[i].text
              /\ cyto.nodes[i].type = cand.nodes[i].type
              /\ cyto.nodes[i].source = out.nodes[i].source
              /\ cyto.nodes[i].confidence = out.nodes[i].confidence
        /\ \A j \in 1..Len(out.edges) :
              /\ cyto.edges[j].source = out.edges[j].source
              /\ cyto.edges[j].target = out.edges[j].target
              /\ cyto.edges[j].type = cand.edges[j].type
        /\ cyto.text = out.text
        /\ cyto = Cyto(ModelDumpJson(out))
        /\ file.present => file = cyto

Wit_C6 ==
    /\ file.present
    /\ Len(out.nodes) = MaxNodes /\ Len(out.edges) = MaxEdges
    /\ out.edges[1] = out.edges[MaxEdges]
    /\ Len(file.edges) = MaxEdges
    /\ out.nodes[1].id = S_e1 /\ file.nodes[1].id = S_e1

\* C7: every exported edge element has id "<kind>:<source>-><target>", built
\* from the kind's string value, and carries the raw source, target and kind;
\* the edge e1 -supports-> c1 exports with id "supports:e1->c1".
Thm_C7 ==
    cyto.present =>
        \A j \in 1..Len(cyto.edges) :
            LET el == cyto.edges[j]
                e == out.edges[j]
                kind == cand.edges[j].type
            IN /\ el.id = kind \o <<":">> \o e.source \o <<"-", ">">> \o e.target
               /\ el.source = e.source /\ el.target = e.target /\ el.type = kind
               /\ (e.source = S_e1 /\ e.target = S_c1 /\ e.type = "SUPPORTS")
                    => el.id = <<"s", "u", "p", "p", "o", "r", "t", "s", ":",
                                 "e", "1", "-", ">", "c", "1">>

Wit_C7 ==
    /\ file.present
    /\ \E j \in 1..Len(file.edges) :
         /\ out.edges[j] = [source |-> S_e1, target |-> S_c1, type |-> "SUPPORTS"]
         /\ file.edges[j].id = <<"s", "u", "p", "p", "o", "r", "t", "s", ":",
                                 "e", "1", "-", ">", "c", "1">>

\* C8: whether a graph is accepted depends only on its node ids and edge
\* endpoints, never on node kinds or edge kinds: it is accepted exactly when the
\* ids are pairwise distinct and every endpoint is one of them.
Thm_C8 ==
    (Parsed /\ FieldsOk) => (out.present <=> (~HasDuplicate /\ DanglingEdges = {}))

Wit_C8 ==
    /\ Parsed /\ out.present /\ err = NoError
    /\ \E i, k \in 1..Len(out.nodes), j, l \in 1..Len(out.edges) :
         /\ out.nodes[i].type = "CLAIM" /\ out.nodes[k].type = "EVIDENCE"
         /\ out.edges[j] = [source |-> out.nodes[i].id, target |-> out.nodes[i].id,
                            type |-> "SUPPORTS"]
         /\ out.edges[l] = [source |-> out.nodes[k].id, target |-> out.nodes[k].id,
                            type |-> "DEPENDS_ON"]

\* C9: validation fails at the first violation in a fixed order: duplicate ids
\* before any edge; then the edges in sequence order, source before target, the
\* error naming the missing id of the first offending endpoint.
Thm_C9 ==
    (Parsed /\ FieldsOk) =>
        /\ HasDuplicate => err = Error("duplicate", <<>>, {})
        /\ (~HasDuplicate /\ DanglingEdges # {}) =>
              LET j == CHOOSE m \in DanglingEdges : \A n \in DanglingEdges : m <= n
                  e == cand.edges[j]
              IN IF e.source \notin NodeIdSet
                 THEN err = Error("source", e.source, {})
                 ELSE err = Error("target", e.target, {})

Wit_C9 ==
    /\ Parsed /\ FieldsOk /\ ~HasDuplicate /\ Rejected
    /\ Len(cand.edges) = MaxEdges /\ DanglingEdges = 1..MaxEdges
    /\ cand.edges[1].source \in NodeIdSet
    /\ cand.edges[MaxEdges].source \notin NodeIdSet
    /\ cand.edges[MaxEdges].source # cand.edges[1].target
    /\ err = Error("target", cand.edges[1].target, {})

\* C10: node ids are stored trimmed and edge endpoints are compared verbatim:
\* ids that differ only in surrounding whitespace are duplicates, an endpoint
\* with surrounding whitespace is always rejected, and every emitted document
\* has pairwise distinct trimmed node ids that contain every edge endpoint.
Thm_C10 ==
    /\ out.present => \A i \in 1..Len(out.nodes) : Trimmed(out.nodes[i].id)
    /\ (Parsed /\ FieldsOk
        /\ \E i, k \in 1..Len(cand.nodes) :
              i # k /\ cand.nodes[i].id # cand.nodes[k].id /\ NodeIdAt(i) = NodeIdAt(k))
         => (Rejected /\ err.kind = "duplicate")
    /\ (Parsed /\ \E j \in 1..Len(cand.edges) :
                     ~Trimmed(cand.edges[j].source) \/ ~Trimmed(cand.edges[j].target))
         => Rejected
    /\ file.present =>
         /\ \A i \in 1..Len(file.nodes) : Trimmed(file.nodes[i].id)
         /\ \A i, k \in 1..Len(file.nodes) : file.nodes[i].id = file.nodes[k].id => i = k
         /\ \A j \in 1..Len(file.edges) :
               /\ \E i \in 1..Len(file.nodes) : file.nodes[i].id = file.edges[j].source
               /\ \E i \in 1..Len(file.nodes) : file.nodes[i].id = file.edges[j].target

Wit_C10 ==
    /\ Parsed /\ FieldsOk /\ Rejected
    /\ Len(cand.nodes) = 1 /\ cand.nodes[1].id = S_sp_c1
    /\ Len(cand.edges) = 1
    /\ cand.edges[1].source = S_sp_c1 /\ cand.edges[1].target = S_c1
    /\ err = Error("source", S_sp_c1, {})

====
